---- MODULE Spec2Model ----
(***************************************************************************)
(* A model of APIHelper (src/index.js): an instance holding default        *)
(* headers and connection options, its setHeader/deleteHeader mutators,    *)
(* the request dispatcher with its five method wrappers, and the           *)
(* life cycle of every request it issues (the promise, the ClientRequest   *)
(* and the response stream with its 'data', 'error' and 'end' events).     *)
(*                                                                         *)
(* JavaScript values are tagged records, so that values of different       *)
(* JavaScript types can be compared without a type error:                  *)
(*   undefined        [undef |-> TRUE]                                     *)
(*   null             [null  |-> TRUE]                                     *)
(*   a number n       [num   |-> n]                                        *)
(*   a string         [str   |-> s], s a name ("GET", "https") where only  *)
(*                    the identity of the string matters, and a sequence   *)
(*                    of UTF-16 code units (<<"/", "x">>) where its        *)
(*                    characters matter (paths, bodies)                    *)
(*   an array         [arr   |-> <<v1, ..., vn>>]                          *)
(*   a plain object   [obj   |-> <<<<k1, v1>>, ..., <<kn, vn>>>>], the own *)
(*                    properties in insertion order                        *)
(*   a cyclic object  [cyclic |-> TRUE]                                    *)
(*   an Error         [err   |-> name]                                     *)
(* An options object or a header mapping is a function from the names of   *)
(* its own properties to their values.                                     *)
(***************************************************************************)
EXTENDS Integers, Sequences, FiniteSets, TLC

VARIABLES
    headers,         \* this.headers
    requestOptions,  \* this.requestOptions
    calls,           \* one record per call of request / GET / POST / PATCH / PUT / DELETE
    construction,    \* history: the arguments the constructor was given
    reference        \* history: the reference header mapping of the setHeader/deleteHeader calls

vars == <<headers, requestOptions, calls, construction, reference>>

----------------------------------------------------------------------------
(* Bounds of the model.                                                    *)

\* calls tracked in the specification of concurrent requests (Spec)
MaxCalls == 2
\* chunks one response delivers, in every specification but SpecStream
MaxChunks == 1
\* calls tracked in SpecFrame, SpecDispatch and SpecStream
MaxSoloCalls == 1
\* chunks one response delivers in SpecStream
MaxStreamChunks == 2

----------------------------------------------------------------------------
(* JavaScript values.                                                      *)

Undefined == [undef |-> TRUE]
Null == [null |-> TRUE]
Cyclic == [cyclic |-> TRUE]
Str(s) == [str |-> s]
Num(n) == [num |-> n]
Arr(a) == [arr |-> a]
Obj(o) == [obj |-> o]
Err(e) == [err |-> e]
EmptyObject == [k \in {} |-> Undefined]

IsString(v) == "str" \in DOMAIN v
\* typeof v === 'object': null, arrays and objects
IsObject(v) == DOMAIN v \cap {"null", "arr", "obj", "cyclic"} # {}

\* o.k: the own property, or undefined
Get(o, k) == IF k \in DOMAIN o THEN o[k] ELSE Undefined

\* a || b for the values the options hold: undefined and '' are falsy
OrElse(a, b) == IF a = Undefined \/ a = Str("") THEN b ELSE a

----------------------------------------------------------------------------
(* Strings: UTF-16 code units and their UTF-8 encoding.  The code units    *)
(* the model draws from: ASCII characters, "e_acute" (U+00E9, two bytes in *)
(* UTF-8) and "euro" (U+20AC, three bytes).                                *)

Utf8Bytes(c) == CASE c = "e_acute" -> 2 [] c = "euro" -> 3 [] OTHER -> 1

\* s.length: the number of UTF-16 code units
Length(s) == Len(s)

\* Buffer.byteLength(s): the bytes request.write(s) puts on the wire
RECURSIVE ByteLength(_)
ByteLength(s) == IF s = <<>> THEN 0 ELSE Utf8Bytes(Head(s)) + ByteLength(Tail(s))

RECURSIVE Concat(_)
Concat(ss) == IF ss = <<>> THEN <<>> ELSE Head(ss) \o Concat(Tail(ss))

\* The UTF-8 encodings of the code units that are not ASCII; a byte is named
\* by its hexadecimal value, an ASCII byte by its character.
Encoding(c) ==
    CASE c = "e_acute" -> <<"C3", "A9">>
      [] c = "euro" -> <<"E2", "82", "AC">>
      [] OTHER -> <<c>>
Encoded == {"e_acute", "euro"}
Replacement == "U+FFFD"

\* whether the bytes of b from i on start with w
StartsWith(b, i, w) == i + Len(w) - 1 <= Len(b) /\ SubSeq(b, i, i + Len(w) - 1) = w

\* buffer.toString(): the UTF-8 decoding of the bytes of b from i on; a
\* sequence cut short by the end of the buffer, and a byte that starts no
\* sequence, each decode to U+FFFD
RECURSIVE Decode(_, _)
Decode(b, i) ==
    IF i > Len(b) THEN <<>>
    ELSE IF \E c \in Encoded : StartsWith(b, i, Encoding(c))
    THEN LET c == CHOOSE c \in Encoded : StartsWith(b, i, Encoding(c))
         IN  <<c>> \o Decode(b, i + Len(Encoding(c)))
    ELSE IF \E c \in Encoded : b[i] = Encoding(c)[1]
    THEN LET c == CHOOSE c \in Encoded : b[i] = Encoding(c)[1]
             n == CHOOSE n \in 1..Len(Encoding(c)) :
                    /\ StartsWith(b, i, SubSeq(Encoding(c), 1, n))
                    /\ ~StartsWith(b, i, SubSeq(Encoding(c), 1, n + 1))
         IN  <<Replacement>> \o Decode(b, i + n)
    ELSE IF \E c \in Encoded : \E n \in 2..Len(Encoding(c)) : b[i] = Encoding(c)[n]
    THEN <<Replacement>> \o Decode(b, i + 1)
    ELSE <<b[i]>> \o Decode(b, i + 1)

toString(b) == Decode(b, 1)

----------------------------------------------------------------------------
(* JSON.stringify and JSON.parse, on null, the natural numbers, strings,   *)
(* arrays and plain objects.                                               *)

Digits == <<"0", "1", "2", "3", "4", "5", "6", "7", "8", "9">>
DigitSet == {Digits[i] : i \in 1..10}
DigitValue(c) == (CHOOSE i \in 1..10 : Digits[i] = c) - 1
Whitespace == {" "}
Quote == "\""
Backslash == "\\"

RECURSIVE NumberToString(_)
NumberToString(n) ==
    IF n < 10 THEN <<Digits[n + 1]>>
    ELSE NumberToString(n \div 10) \o <<Digits[(n % 10) + 1]>>

RECURSIVE QuoteChars(_)
QuoteChars(s) ==
    IF s = <<>> THEN <<>>
    ELSE (IF Head(s) \in {Quote, Backslash} THEN <<Backslash, Head(s)>> ELSE <<Head(s)>>)
         \o QuoteChars(Tail(s))

\* JSON.stringify throws a TypeError on a cyclic structure
RECURSIVE StringifyThrows(_)
StringifyThrows(v) ==
    CASE "cyclic" \in DOMAIN v -> TRUE
      [] "arr" \in DOMAIN v -> \E i \in 1..Len(v.arr) : StringifyThrows(v.arr[i])
      [] "obj" \in DOMAIN v -> \E i \in 1..Len(v.obj) : StringifyThrows(v.obj[i][2])
      [] OTHER -> FALSE

RECURSIVE JSONStringify(_)
JSONStringify(v) ==
    LET RECURSIVE Elements(_)
        Elements(a) ==
            IF a = <<>> THEN <<>>
            ELSE JSONStringify(Head(a))
                 \o (IF Len(a) > 1 THEN <<",">> ELSE <<>>) \o Elements(Tail(a))
        RECURSIVE Members(_)
        Members(o) ==
            IF o = <<>> THEN <<>>
            ELSE <<Quote>> \o QuoteChars(Head(o)[1]) \o <<Quote, ":">>
                 \o JSONStringify(Head(o)[2])
                 \o (IF Len(o) > 1 THEN <<",">> ELSE <<>>) \o Members(Tail(o))
    IN  CASE "null" \in DOMAIN v -> <<"n", "u", "l", "l">>
          [] "num" \in DOMAIN v -> NumberToString(v.num)
          [] "str" \in DOMAIN v -> <<Quote>> \o QuoteChars(v.str) \o <<Quote>>
          [] "arr" \in DOMAIN v -> <<"[">> \o Elements(v.arr) \o <<"]">>
          [] "obj" \in DOMAIN v -> <<"{">> \o Members(v.obj) \o <<"}">>

\* The parser: each step returns [ok, val, pos], pos the index after what it read.
ParseFail == [ok |-> FALSE, val |-> Undefined, pos |-> 0]
Parsed(v, p) == [ok |-> TRUE, val |-> v, pos |-> p]

RECURSIVE SkipWhitespace(_, _)
SkipWhitespace(s, i) ==
    IF i <= Len(s) /\ s[i] \in Whitespace THEN SkipWhitespace(s, i + 1) ELSE i

\* the digits of a number from i on, n the value read so far
RECURSIVE ParseDigits(_, _, _)
ParseDigits(s, i, n) ==
    IF i <= Len(s) /\ s[i] \in DigitSet
    THEN ParseDigits(s, i + 1, 10 * n + DigitValue(s[i]))
    ELSE Parsed(Num(n), i)

\* the characters of a string from i on (after the opening quote)
RECURSIVE ParseChars(_, _, _)
ParseChars(s, i, acc) ==
    IF i > Len(s) THEN ParseFail
    ELSE IF s[i] = Quote THEN Parsed(Str(acc), i + 1)
    ELSE IF s[i] = Backslash
         THEN IF i + 1 <= Len(s) /\ s[i + 1] \in {Quote, Backslash}
              THEN ParseChars(s, i + 2, Append(acc, s[i + 1]))
              ELSE ParseFail
    ELSE ParseChars(s, i + 1, Append(acc, s[i]))

\* o with property k set to v: a new key goes last, an old one keeps its place
SetMember(o, k, v) ==
    IF \E j \in 1..Len(o) : o[j][1] = k
    THEN [j \in 1..Len(o) |-> IF o[j][1] = k THEN <<k, v>> ELSE o[j]]
    ELSE Append(o, <<k, v>>)

HasWord(s, i, w) == i + Len(w) - 1 <= Len(s) /\ SubSeq(s, i, i + Len(w) - 1) = w

RECURSIVE ParseValue(_, _)
RECURSIVE ParseElements(_, _, _)
RECURSIVE ParseMembers(_, _, _)

\* after an element of an array: "," and the next element, or "]"
ParseElements(s, i, acc) ==
    LET r == ParseValue(s, i)
        j == SkipWhitespace(s, r.pos)
    IN  IF ~r.ok \/ j > Len(s) THEN ParseFail
        ELSE IF s[j] = "]" THEN Parsed(Arr(Append(acc, r.val)), j + 1)
        ELSE IF s[j] = "," THEN ParseElements(s, j + 1, Append(acc, r.val))
        ELSE ParseFail

\* a member "key": value of an object, then "," and the next member, or "}"
ParseMembers(s, i, acc) ==
    LET j == SkipWhitespace(s, i)
        k == IF j <= Len(s) /\ s[j] = Quote THEN ParseChars(s, j + 1, <<>>) ELSE ParseFail
        c == SkipWhitespace(s, k.pos)
        r == IF k.ok /\ c <= Len(s) /\ s[c] = ":" THEN ParseValue(s, c + 1) ELSE ParseFail
        e == SkipWhitespace(s, r.pos)
    IN  IF ~r.ok \/ e > Len(s) THEN ParseFail
        ELSE IF s[e] = "}" THEN Parsed(Obj(SetMember(acc, k.val.str, r.val)), e + 1)
        ELSE IF s[e] = "," THEN ParseMembers(s, e + 1, SetMember(acc, k.val.str, r.val))
        ELSE ParseFail

ParseValue(s, i) ==
    LET j == SkipWhitespace(s, i)
    IN  IF j > Len(s) THEN ParseFail
        ELSE IF HasWord(s, j, <<"n", "u", "l", "l">>) THEN Parsed(Null, j + 4)
        ELSE IF s[j] = "0" THEN Parsed(Num(0), j + 1)
        ELSE IF s[j] \in DigitSet THEN ParseDigits(s, j, 0)
        ELSE IF s[j] = Quote THEN ParseChars(s, j + 1, <<>>)
        ELSE IF s[j] = "["
             THEN LET e == SkipWhitespace(s, j + 1)
                  IN  IF e <= Len(s) /\ s[e] = "]" THEN Parsed(Arr(<<>>), e + 1)
                      ELSE ParseElements(s, j + 1, <<>>)
        ELSE IF s[j] = "{"
             THEN LET e == SkipWhitespace(s, j + 1)
                  IN  IF e <= Len(s) /\ s[e] = "}" THEN Parsed(Obj(<<>>), e + 1)
                      ELSE ParseMembers(s, j + 1, <<>>)
        ELSE ParseFail

\* JSON.parse(s): [ok |-> TRUE, val] or, where JSON.parse throws a SyntaxError, [ok |-> FALSE]
JSONParse(s) ==
    LET r == ParseValue(s, 1)
    IN  IF r.ok /\ SkipWhitespace(s, r.pos) > Len(s)
        THEN [ok |-> TRUE, val |-> r.val]
        ELSE [ok |-> FALSE, val |-> Undefined]

----------------------------------------------------------------------------
(* Object.assign.                                                          *)

\* Object.assign(target, source): the target after the call, with every own
\* property of the source copied over it; an undefined source copies nothing
ObjectAssign(target, source) ==
    IF source = Undefined THEN target
    ELSE [k \in DOMAIN target \cup DOMAIN source |->
            IF k \in DOMAIN source THEN source[k] ELSE target[k]]


----------------------------------------------------------------------------
(* Promises, the ClientRequest and the instance.                           *)

\* new Promise(...): pending until the first resolve or reject; later ones are ignored
Pending == [state |-> "pending", value |-> Undefined]
NoPromise == [state |-> "none", value |-> Undefined]
Resolve(p, v) == IF p.state = "pending" THEN [state |-> "fulfilled", value |-> v] ELSE p
Reject(p, e) == IF p.state = "pending" THEN [state |-> "rejected", value |-> e] ELSE p
Settled(p) == p.state \in {"fulfilled", "rejected"}

\* the object http.request / https.request returns, and what was written to it
NoRequest ==
    [created |-> FALSE, transport |-> "none", options |-> EmptyObject,
     wrote |-> FALSE, body |-> <<>>, ended |-> FALSE]

Methods == {"GET", "POST", "PATCH", "PUT", "DELETE"}

\* the instance: this.headers and this.requestOptions
Instance(h, o) == [headers |-> h, requestOptions |-> o]

\* constructor(requestOptions, headers): both copied into fresh objects
Constructor(options, hdrs) == Instance(ObjectAssign(EmptyObject, hdrs), ObjectAssign(EmptyObject, options))

\* deleteHeader(key): this.headers after the call
deleteHeader(h, key) == [k \in DOMAIN h \ {key} |-> h[k]]

\* setHeader with the guard on '' lost: the empty string is stored
setHeader_StoresEmpty(h, key, value) ==
    IF value = Undefined
    THEN deleteHeader(h, key)
    ELSE [k \in DOMAIN h \cup {key} |-> IF k = key THEN value ELSE h[k]]

\* setHeader(key, value): this.headers after the call
setHeader(h, key, value) ==
    IF value = Str("") \/ value = Undefined
    THEN deleteHeader(h, key)
    ELSE [k \in DOMAIN h \cup {key} |-> IF k = key THEN value ELSE h[k]]

----------------------------------------------------------------------------
(* request(requestOptions, data) and the wrappers.  Each yields the        *)
(* outcome of the synchronous part of the call:                            *)
(*   raised   the exception the call ran into (undefined if none)          *)
(*   threw    whether that exception reached the caller                    *)
(*   promise  the promise returned (state "none" if the call threw)        *)
(*   req      the ClientRequest created                                    *)
(*   self     the instance after the call                                  *)
(*   options  the caller's requestOptions object after the call            *)

\* data.length
DataLength(data) == IF IsString(data) THEN Num(Length(data.str)) ELSE Undefined

\* the 'path' option: (path[0] !== '/' ? '/' : '') + path
Path(p) == IF p.str # <<>> /\ p.str[1] = "/" THEN p ELSE Str(<<"/">> \o p.str)

\* the 'method' option
Method(m) == IF m \in {Str(x) : x \in Methods} THEN m ELSE Str("GET")

\* the module the request goes through
Transport(self, options) ==
    IF OrElse(Get(options, "protocol"), Get(self.requestOptions, "protocol")) = Str("https")
    THEN "https" ELSE "http"

\* the 'headers' option with this.headers left out of the overlay
Headers_WithoutInstance(self, options, data) ==
    ObjectAssign(
        IF Get(options, "method") = Str("GET") THEN EmptyObject
        ELSE ("Content-Length" :> DataLength(data)),
        Get(options, "headers"))

\* the 'headers' option: the base object, this.headers over it, requestOptions.headers over both
Headers(self, options, data) ==
    ObjectAssign(
        ObjectAssign(
            IF Get(options, "method") = Str("GET") THEN EmptyObject
            ELSE ("Content-Length" :> DataLength(data)),
            self.headers),
        Get(options, "headers"))

\* the options object handed to http.request / https.request
RequestDescriptor(self, options, data) ==
    [hostname |-> OrElse(Get(options, "hostname"), Get(self.requestOptions, "hostname")),
     port |-> Get(options, "port"),
     path |-> Path(Get(options, "path")),
     method |-> Method(Get(options, "method")),
     headers |-> Headers(self, options, data)]

\* http.request throws ERR_HTTP_INVALID_HEADER_VALUE on a header whose value is undefined
InvalidHeader(h) == \E k \in DOMAIN h : h[k] = Undefined

\* whether the body is written: requestOptions.method !== 'GET'
WritesBody(options) == Get(options, "method") # Str("GET")

\* the executor of the promise: the try block and its catch
Executor(self, options, data) ==
    LET out(raised, req) ==
            [raised |-> raised, threw |-> FALSE,
             promise |-> IF raised = Undefined THEN Pending ELSE Reject(Pending, raised),
             req |-> req, self |-> self, options |-> options]
        desc == RequestDescriptor(self, options, data)
        made == [NoRequest EXCEPT !.created = TRUE, !.transport = Transport(self, options),
                                  !.options = desc]
    IN  IF Get(options, "path") = Undefined
        THEN out(Err("TypeError"), NoRequest)
        ELSE IF InvalidHeader(desc.headers)
        THEN out(Err("ERR_HTTP_INVALID_HEADER_VALUE"), NoRequest)
        ELSE IF ~WritesBody(options)
        THEN out(Undefined, [made EXCEPT !.ended = TRUE])
        ELSE IF ~IsString(data)
        THEN out(Err("ERR_INVALID_ARG_TYPE"), made)
        ELSE out(Undefined, [made EXCEPT !.wrote = TRUE, !.body = data.str, !.ended = TRUE])

\* request(requestOptions, data)
request(self, options, data) ==
    IF IsObject(data)
    THEN IF StringifyThrows(data)
         THEN [raised |-> Err("TypeError: cyclic"), threw |-> TRUE, promise |-> NoPromise,
               req |-> NoRequest, self |-> self, options |-> options]
         ELSE Executor(self, options, Str(JSONStringify(data)))
    ELSE Executor(self, options, data)

\* a wrapper with the arguments of Object.assign swapped: the method is
\* assigned into the caller's object
Wrapper_AssignsIntoOptions(m, self, options, data) ==
    LET merged == ObjectAssign(options, ("method" :> Str(m)))
    IN  [request(self, merged, data) EXCEPT !.options = merged]

\* a wrapper: request(Object.assign({ 'method': m }, requestOptions), data)
Wrapper(m, self, options, data) ==
    [request(self, ObjectAssign(("method" :> Str(m)), options), data) EXCEPT !.options = options]

GET(self, options, data) == Wrapper("GET", self, options, data)
POST(self, options, data) == Wrapper("POST", self, options, data)
PATCH(self, options, data) == Wrapper("PATCH", self, options, data)
PUT(self, options, data) == Wrapper("PUT", self, options, data)
DELETE(self, options, data) == Wrapper("DELETE", self, options, data)

\* the operation named op
Invoke(op, self, options, data) ==
    CASE op = "request" -> request(self, options, data)
      [] op = "GET" -> GET(self, options, data)
      [] op = "POST" -> POST(self, options, data)
      [] op = "PATCH" -> PATCH(self, options, data)
      [] op = "PUT" -> PUT(self, options, data)
      [] op = "DELETE" -> DELETE(self, options, data)


----------------------------------------------------------------------------
(* The listeners of a call.  A call's record c holds the promise and the   *)
(* closure variable update.                                                *)

\* the response callback: let update = ''
OnResponse(c) == [c EXCEPT !.update = Str(<<>>)]

\* the 'data' listener joining the chunks in the wrong order: update = d + update
OnData_Prepends(c, d) == [c EXCEPT !.update = Str(toString(d) \o @.str)]

\* data.on('data', d => update += d), d a Buffer: += joins its toString()
OnData(c, d) == [c EXCEPT !.update = Str(@.str \o toString(d))]

\* data.on('error', err => reject(err))
OnResponseError(c, err) == [c EXCEPT !.promise = Reject(@, err)]

\* the 'end' listener resolving inside the try: a body that is no JSON resolves nothing
OnEnd_ResolvesInTry(c) ==
    LET r == JSONParse(c.update.str)
    IN  IF r.ok THEN [c EXCEPT !.update = r.val, !.promise = Resolve(@, r.val)] ELSE c

\* data.on('end', ...): try { update = JSON.parse(update) } catch (err) { }; resolve(update)
OnEnd(c) ==
    LET r == JSONParse(c.update.str)
        u == IF r.ok THEN r.val ELSE c.update
    IN  [c EXCEPT !.update = u, !.promise = Resolve(@, u)]

\* request.on('error', reject)
OnRequestError(c, err) == [c EXCEPT !.promise = Reject(@, err)]

----------------------------------------------------------------------------
(* The state machine.                                                      *)

Calls == 1..Len(calls)

\* the record of a call: the outcome of its synchronous part, the arguments
\* it was given (op, args, data) and the instance it found (at) as history,
\* and the response stream: res its state, status the status code, chunks
\* the chunks delivered, failures every error the call has run into, clean
\* whether the stream ended with no error before
NewCall(op, options, data, self, out) ==
    [op |-> op, args |-> options, data |-> data, at |-> self,
     raised |-> out.raised, threw |-> out.threw, promise |-> out.promise,
     req |-> out.req, options |-> out.options,
     res |-> "none", status |-> 0, update |-> Undefined, chunks |-> <<>>,
     failures |-> IF out.raised = Undefined THEN <<>> ELSE <<out.raised>>,
     reqError |-> FALSE, clean |-> FALSE]

\* the state after new APIHelper(options, hdrs)
Constructed(options, hdrs) ==
    /\ construction = [requestOptions |-> options, headers |-> hdrs]
    /\ headers = Constructor(options, hdrs).headers
    /\ requestOptions = Constructor(options, hdrs).requestOptions
    /\ reference = Constructor(options, hdrs).headers
    /\ calls = <<>>

\* the reference mapping: put k -> v, remove k
Put(m, k, v) == (k :> v) @@ m
Remove(m, k) == [j \in DOMAIN m \ {k} |-> m[j]]

SetHeader(key, value) ==
    /\ headers' = setHeader(headers, key, value)
    /\ reference' = IF value \in {Str(""), Undefined}
                    THEN Remove(reference, key) ELSE Put(reference, key, value)
    /\ UNCHANGED <<requestOptions, calls, construction>>

DeleteHeader(key) ==
    /\ headers' = deleteHeader(headers, key)
    /\ reference' = Remove(reference, key)
    /\ UNCHANGED <<requestOptions, calls, construction>>

\* a call of request or of a wrapper, limit the number of calls tracked
Call(op, options, data, limit) ==
    /\ Len(calls) < limit
    /\ LET self == Instance(headers, requestOptions)
           out == Invoke(op, self, options, data)
       IN  /\ calls' = Append(calls, NewCall(op, options, data, self, out))
           /\ headers' = out.self.headers
           /\ requestOptions' = out.self.requestOptions
    /\ UNCHANGED <<construction, reference>>

\* the request emits 'error'
RequestError(i, err) ==
    /\ calls[i].req.created
    /\ ~calls[i].reqError
    /\ calls[i].res \in {"none", "open"}
    /\ calls' = [calls EXCEPT ![i] =
            [OnRequestError(@, err) EXCEPT !.reqError = TRUE,
                                            !.failures = Append(@, err)]]
    /\ UNCHANGED <<headers, requestOptions, construction, reference>>

\* the response arrives: the callback of http.request runs
Response(i, status) ==
    /\ calls[i].req.ended
    /\ ~calls[i].reqError
    /\ calls[i].res = "none"
    /\ calls' = [calls EXCEPT ![i] = [OnResponse(@) EXCEPT !.res = "open", !.status = status]]
    /\ UNCHANGED <<headers, requestOptions, construction, reference>>

\* the response emits 'data'
ResponseData(i, chunk, limit) ==
    /\ calls[i].res = "open"
    /\ Len(calls[i].chunks) < limit
    /\ calls' = [calls EXCEPT ![i] = [OnData(@, chunk) EXCEPT !.chunks = Append(@, chunk)]]
    /\ UNCHANGED <<headers, requestOptions, construction, reference>>

\* the response emits 'error'
ResponseError(i, err) ==
    /\ calls[i].res = "open"
    /\ calls' = [calls EXCEPT ![i] =
            [OnResponseError(@, err) EXCEPT !.res = "errored", !.failures = Append(@, err)]]
    /\ UNCHANGED <<headers, requestOptions, construction, reference>>

\* the response emits 'end'
ResponseEnd(i) ==
    /\ calls[i].res = "open"
    /\ calls' = [calls EXCEPT ![i] =
            [OnEnd(@) EXCEPT !.res = "ended", !.clean = (calls[i].failures = <<>>)]]
    /\ UNCHANGED <<headers, requestOptions, construction, reference>>


----------------------------------------------------------------------------
(* The inputs the specifications draw from.                                *)

HeaderKeys == {"Content-Length", "Authorization", "Accept"}
Operations == {"request"} \cup Methods

Defaults == ("protocol" :> Str("https")) @@ ("hostname" :> Str("api.example"))
Token == ("Authorization" :> Str("v1"))

\* requestOptions objects
NoPath == EmptyObject
Users == ("path" :> Str(<<"u">>))
GetItems == ("path" :> Str(<<"/", "i">>)) @@ ("method" :> Str("GET"))
PostItems ==
    ("path" :> Str(<<"/", "i">>)) @@ ("method" :> Str("POST"))
    @@ ("headers" :> (("Content-Length" :> Str("v2")) @@ ("Authorization" :> Str("v2"))))
HeadOther ==
    ("path" :> Str(<<"i">>)) @@ ("method" :> Str("HEAD")) @@ ("protocol" :> Str("http"))
    @@ ("hostname" :> Str("other.example")) @@ ("port" :> Num(8080))
    @@ ("headers" :> ("Accept" :> Str("v2")))
DeleteItems == ("path" :> Str(<<"/", "i">>)) @@ ("method" :> Str("DELETE"))
Accepting ==
    ("path" :> Str(<<"u">>)) @@ ("protocol" :> Str("http"))
    @@ ("headers" :> ("Accept" :> Str("v2")))

\* bodies
Name == Obj(<<<< <<"n">>, Str(<<"x">>) >>>>)
Bodies ==
    {Str(<<>>), Str(<<"a">>), Str(<<"e_acute">>), Name, Arr(<<Str(<<"euro">>), Num(10)>>),
     Null, Cyclic, Num(5)}

\* chunks of a response body, as bytes: the two halves of ["\u00e9"], cut
\* inside the character, and {"a":1}
Chunks ==
    {<<"[", Quote, "C3">>, <<"A9", Quote, "]">>, <<"{", Quote, "a", Quote, ":", "1", "}">>}

ConnectionError == Err("ECONNREFUSED")
StreamError == Err("ECONNRESET")

\* the events of the requests issued, a response delivering at most limit
\* chunks drawn from chunks, with a status code drawn from codes
Events(codes, chunks, limit) ==
    \/ \E i \in Calls : RequestError(i, ConnectionError)
    \/ \E i \in Calls, code \in codes : Response(i, code)
    \/ \E i \in Calls, d \in chunks : ResponseData(i, d, limit)
    \/ \E i \in Calls : ResponseError(i, StreamError)
    \/ \E i \in Calls : ResponseEnd(i)

----------------------------------------------------------------------------
(* Spec: an instance shared by concurrent requests, its headers set and    *)
(* deleted between the calls and the events of the requests in flight.     *)

Init == Constructed(Defaults, Token)

Next ==
    \/ SetHeader("Authorization", Str("v1"))
    \/ DeleteHeader("Authorization")
    \/ Call("POST", Accepting, Str(<<"a">>), MaxCalls)
    \/ Events({200}, {<<"1">>}, MaxChunks)

Spec == Init /\ [][Next]_vars

----------------------------------------------------------------------------
(* SpecHeaders: the header mapping under setHeader and deleteHeader.       *)

InitHeaders ==
    \E c \in {<<Undefined, Undefined>>, <<Defaults, Token>>} : Constructed(c[1], c[2])

NextHeaders ==
    \/ \E k \in HeaderKeys, v \in {Str("v1"), Str("v2"), Str("v3"), Str(""), Undefined} :
            SetHeader(k, v)
    \/ \E k \in HeaderKeys : DeleteHeader(k)

SpecHeaders == InitHeaders /\ [][NextHeaders]_vars

----------------------------------------------------------------------------
(* SpecFrame: every operation of the instance, for what a call leaves      *)
(* behind in the instance and in the caller's objects.                     *)

InitFrame == Constructed(Defaults, Token)

NextFrame ==
    \/ \E v \in {Str("v1"), Undefined} : SetHeader("Authorization", v)
    \/ DeleteHeader("Authorization")
    \/ \E op \in Operations, o \in {NoPath, Users, PostItems} :
            Call(op, o, Str(<<"a">>), MaxSoloCalls)
    \/ Events({200}, {<<"1">>}, MaxChunks)

SpecFrame == InitFrame /\ [][NextFrame]_vars

----------------------------------------------------------------------------
(* SpecDispatch: the synchronous part of one call, over every operation,   *)
(* the requestOptions objects and the bodies above.                        *)

InitDispatch ==
    \E c \in {<<Undefined, Undefined>>, <<Defaults, Token>>,
              <<EmptyObject, ("Content-Length" :> Str("v1"))>>} : Constructed(c[1], c[2])

NextDispatch ==
    \/ \E v \in {Str("v1"), Undefined} : SetHeader("Authorization", v)
    \/ DeleteHeader("Authorization")
    \/ \E op \in Operations, o \in {NoPath, Users, GetItems, PostItems, HeadOther, DeleteItems},
          d \in Bodies : Call(op, o, d, MaxSoloCalls)
    \/ Events({200}, {<<"1">>}, MaxChunks)

SpecDispatch == InitDispatch /\ [][NextDispatch]_vars

----------------------------------------------------------------------------
(* SpecStream: the response stream of one request, under every order of    *)
(* its events.  No fairness is assumed: the transport may stay silent for  *)
(* ever, and a property that needs a terminal event says so.               *)

InitStream == Constructed(Defaults, Token)

NextStream ==
    \/ \E a \in {<<Users, Str(<<"a">>)>>, <<PostItems, Num(5)>>} :
            Call("request", a[1], a[2], MaxSoloCalls)
    \/ Events({200, 404}, Chunks, MaxStreamChunks)

SpecStream == InitStream /\ [][NextStream]_vars

----------------------------------------------------------------------------
(* What the claims speak of.                                               *)

Issued(i) == calls[i].req.created
Sent(i) == calls[i].req.options
\* the requestOptions.headers the caller gave (no mapping: an empty one)
GivenHeaders(i) == ObjectAssign(EmptyObject, Get(calls[i].args, "headers"))
\* Content-Length comes from neither the instance nor the caller
AutoContentLength(i) ==
    /\ "Content-Length" \in DOMAIN Sent(i).headers
    /\ "Content-Length" \notin DOMAIN calls[i].at.headers \cup DOMAIN GivenHeaders(i)
\* the requestOptions.method request is handed: the caller's, else the wrapper's
GivenMethod(i) ==
    IF "method" \in DOMAIN calls[i].args \/ calls[i].op = "request"
    THEN Get(calls[i].args, "method") ELSE Str(calls[i].op)
\* a terminal event has been delivered to call i
Terminal(i) ==
    /\ i \in Calls
    /\ calls[i].res \in {"ended", "errored"} \/ calls[i].reqError
\* what a response whose joined string is s resolves to
Resolution(s) == IF JSONParse(s).ok THEN JSONParse(s).val ELSE Str(s)
\* the chunks of call i joined in arrival order, each as a string
Joined(i) == Concat([k \in 1..Len(calls[i].chunks) |-> toString(calls[i].chunks[k])])

\* C1: the request a wrapper W dispatches has method W, whatever method the
\* caller's requestOptions name.
C1_WrapperForcesMethod ==
    \A i \in Calls :
        calls[i].op \in Methods /\ Issued(i) => Sent(i).method = Str(calls[i].op)

\* C2: a request whose effective method is GET (given, omitted or coerced)
\* gets no automatic Content-Length and no body; a body is written only to a
\* request whose effective method is POST, PATCH, PUT or DELETE.
C2_GetSendsNoBody ==
    \A i \in Calls :
        Issued(i) /\ Sent(i).method = Str("GET")
            => ~AutoContentLength(i) /\ ~calls[i].req.wrote /\ calls[i].req.body = <<>>

\* C3: no call throws to its caller: every call returns a promise, and every
\* failure of the call rejects that promise with the error itself.
C3_FailuresReject ==
    \A i \in Calls :
        /\ ~calls[i].threw
        /\ calls[i].promise.state # "none"
        /\ calls[i].failures # <<>>
            => calls[i].promise = [state |-> "rejected", value |-> calls[i].failures[1]]

\* C4: the automatic Content-Length of a non-GET request is the number of
\* bytes of the body transmitted.
C4_ContentLengthIsByteLength ==
    \A i \in Calls :
        Issued(i) /\ Sent(i).method # Str("GET") /\ AutoContentLength(i)
            => Sent(i).headers["Content-Length"] = Num(ByteLength(calls[i].req.body))

\* C5: the headers sent are requestOptions.headers over the instance's
\* headers over the base of the method (Content-Length for a non-GET
\* request, nothing for a GET request), and no other key is sent.
C5_HeaderOverlay ==
    \A i \in Calls :
        Issued(i) =>
            \A k \in HeaderKeys \cup DOMAIN Sent(i).headers :
                IF k \in DOMAIN GivenHeaders(i)
                THEN k \in DOMAIN Sent(i).headers /\ Sent(i).headers[k] = GivenHeaders(i)[k]
                ELSE IF k \in DOMAIN calls[i].at.headers
                THEN k \in DOMAIN Sent(i).headers /\ Sent(i).headers[k] = calls[i].at.headers[k]
                ELSE IF k = "Content-Length" /\ Sent(i).method # Str("GET")
                THEN k \in DOMAIN Sent(i).headers
                ELSE k \notin DOMAIN Sent(i).headers

\* The precedence of C5 over the base the code starts from (Content-Length
\* unless requestOptions.method is 'GET'): the layers are overlaid in the
\* order C5 states.
OverlayOverCodeBase ==
    \A i \in Calls :
        Issued(i) =>
            \A k \in HeaderKeys \cup DOMAIN Sent(i).headers :
                IF k \in DOMAIN GivenHeaders(i)
                THEN k \in DOMAIN Sent(i).headers /\ Sent(i).headers[k] = GivenHeaders(i)[k]
                ELSE IF k \in DOMAIN calls[i].at.headers
                THEN k \in DOMAIN Sent(i).headers /\ Sent(i).headers[k] = calls[i].at.headers[k]
                ELSE IF k = "Content-Length" /\ GivenMethod(i) # Str("GET")
                THEN k \in DOMAIN Sent(i).headers
                ELSE k \notin DOMAIN Sent(i).headers

\* C6: after any sequence of setHeader and deleteHeader calls the header
\* mapping is the reference mapping (put k -> v for setHeader(k, v) with v
\* neither '' nor undefined, remove k otherwise); setHeader(k, '') and
\* setHeader(k, undefined) leave what deleteHeader(k) leaves, setHeader then
\* deleteHeader leaves no k, deleting an absent key changes nothing, and no
\* other key is touched.
C6_HeadersFollowReference ==
    /\ headers = reference
    /\ \A k \in HeaderKeys :
        /\ setHeader(headers, k, Str("")) = deleteHeader(headers, k)
        /\ setHeader(headers, k, Undefined) = deleteHeader(headers, k)
        /\ k \notin DOMAIN deleteHeader(setHeader(headers, k, Str("v2")), k)
        /\ k \notin DOMAIN headers => deleteHeader(headers, k) = headers
        /\ \A j \in HeaderKeys \ {k}, v \in {Str("v2"), Str(""), Undefined} :
            /\ Get(setHeader(headers, k, v), j) = Get(headers, j)
            /\ (j \in DOMAIN setHeader(headers, k, v)) = (j \in DOMAIN headers)
            /\ (j \in DOMAIN deleteHeader(headers, k)) = (j \in DOMAIN headers)

\* a key set that the construction did not give, and the constructed key deleted
C6_Witness ==
    /\ "Content-Length" \in DOMAIN headers
    /\ "Authorization" \notin DOMAIN headers

\* C7: the promise of a call settles exactly once: once settled, no event
\* changes its state or its value; and if a terminal event (response end,
\* response error, request error) is ever delivered, the promise is
\* eventually settled.
C7_SettlesExactlyOnce ==
    /\ [][\A i \in Calls : Settled(calls[i].promise) => calls'[i].promise = calls[i].promise]_vars
    /\ \A i \in 1..MaxSoloCalls : (<>Terminal(i)) => <>(i \in Calls /\ Settled(calls[i].promise))

\* a rejected promise whose response later ended: the resolve of 'end' came second
C7_Witness ==
    \E i \in Calls :
        /\ calls[i].promise.state = "rejected"
        /\ calls[i].res = "ended"
        /\ calls[i].reqError

\* C8: a response that ends with no error before resolves the promise, never
\* rejects it, whatever its status: with the JSON value of the string its
\* chunks make joined in arrival order, or with that string itself (the
\* empty string too) if it is no JSON; the promise is fulfilled only at
\* 'end'; a request error before 'end' leaves the promise rejected.
C8_EndResolves ==
    \A i \in Calls :
        /\ calls[i].clean
            => calls[i].promise =
                   [state |-> "fulfilled", value |-> Resolution(Joined(i))]
        /\ calls[i].promise.state = "fulfilled" => calls[i].res = "ended"
        /\ calls[i].reqError => calls[i].promise.state = "rejected"

\* two chunks that are JSON only joined in their order, on a 404
C8_Witness ==
    \E i \in Calls :
        /\ calls[i].clean
        /\ calls[i].status = 404
        /\ calls[i].chunks = << <<"[", Quote, "C3">>, <<"A9", Quote, "]">> >>
        /\ calls[i].promise.value = Arr(<<Str(<<Replacement, Replacement>>)>>)

\* C9: a call of request or of a wrapper changes neither the instance's
\* headers, nor its connection defaults, nor the caller's requestOptions
\* (with its headers); the connection defaults stay those of the
\* construction.
C9_CallsChangeNothing ==
    /\ [][calls' # calls => headers' = headers /\ requestOptions' = requestOptions]_vars
    /\ [](/\ requestOptions = ObjectAssign(EmptyObject, construction.requestOptions)
          /\ \A i \in Calls : calls[i].options = calls[i].args)

\* a wrapper called with requestOptions naming another method and headers,
\* its request answered
C9_Witness ==
    \E i \in Calls :
        /\ calls[i].op = "DELETE"
        /\ calls[i].args = PostItems
        /\ Issued(i)
        /\ calls[i].promise.state = "fulfilled"

\* C10: the headers, the protocol and the hostname of a request are resolved
\* from the instance as it is when request is called, and no later
\* setHeader/deleteHeader, call or event changes the request issued.
C10_ResolvedAtCall ==
    /\ [][\A i \in Calls : calls'[i].req = calls[i].req]_vars
    /\ [](\A i \in Calls :
            Issued(i) =>
                /\ \A k \in DOMAIN calls[i].at.headers \ DOMAIN GivenHeaders(i) :
                    /\ k \in DOMAIN Sent(i).headers
                    /\ Sent(i).headers[k] = calls[i].at.headers[k]
                /\ \A k \in DOMAIN Sent(i).headers :
                    k \in DOMAIN calls[i].at.headers \cup DOMAIN GivenHeaders(i)
                                                       \cup {"Content-Length"}
                /\ Sent(i).hostname = OrElse(Get(calls[i].args, "hostname"),
                                             Get(calls[i].at.requestOptions, "hostname"))
                /\ (calls[i].req.transport = "https")
                    = (OrElse(Get(calls[i].args, "protocol"),
                              Get(calls[i].at.requestOptions, "protocol")) = Str("https")))

\* two requests in flight, issued under different headers, the instance's
\* headers changed again since the later one
C10_Witness ==
    \E i, j \in Calls :
        /\ i < j
        /\ Issued(i) /\ Issued(j)
        /\ calls[i].promise.state = "pending" /\ calls[j].promise.state = "pending"
        /\ calls[i].at.headers # calls[j].at.headers
        /\ headers # calls[j].at.headers


====
